---------------------------- MODULE Spec2Model ----------------------------
(***************************************************************************)
(* A model of the two numerical primitives of TooN:                        *)
(*   - golden_section_search   (src/optimization/golden_section.h)         *)
(*   - WLS<Size>               (src/wls.h)                                 *)
(*                                                                         *)
(* Numbers.  Precision and double are modelled by exact arithmetic on a    *)
(* bounded domain.  Positions of the line search are rationals with the    *)
(* common denominator Unit, stored as their integer numerators; the        *)
(* constant g = (3 - sqrt(5))/2 = 0.3819... is replaced by the rational    *)
(* GNum/GDen (a quotient of Fibonacci numbers), and Unit = GDen^MaxEvals   *)
(* makes every product g*d of a run with at most MaxEvals functor          *)
(* evaluations an integer.  The entries of the WLS matrices are small      *)
(* integers, on which the arithmetic of double is exact.  Rounding at the  *)
(* limit of the precision, overflow and NaN are outside this model.        *)
(***************************************************************************)
EXTENDS Integers, Sequences, FiniteSets, TLC

VARIABLES
    \* ---- golden_section_search: parameters and locals
    pc,             \* position in the function: "call", "setup", "loop", "done"
    entry,          \* which overload was called: "none", "fb", "nofb"
    a, b, c,        \* the bracket (a and c are overwritten by the loop)
    fb,             \* the value passed for f(b)
    func,           \* the functor
    maxiterations,  \* the iteration cap
    tol,            \* the tolerance, a rational <<num, den>>
    x1, x2, fx1, fx2,
    itnum,
    result,         \* the returned Vector<2>: <<position, value>>
    \* ---- golden_section_search: history of the run
    a0, c0,         \* a and c as passed by the caller
    evals,          \* functor evaluations made so far
    iters,          \* iterations made so far, the setup step being the first
    \* ---- WLS<Size>: the members, one value per instance
    my_mu,          \* the solution, a vector of rationals <<n_1, .., n_Size, d>>
    my_C_inv,       \* the information matrix
    my_vector,      \* the information vector
    my_svd,         \* the decomposition, as the matrix it was computed from
    \* ---- WLS<Size>: history of the run
    last,           \* the last call: [op, inst, prior]
    asymArg,        \* whether some call was passed an asymmetric matrix
    nops,           \* calls made so far
    phase,          \* the stage of a scripted scenario
    batch           \* the arguments of the batched add_df under comparison

gsVars == <<pc, entry, a, b, c, fb, func, maxiterations, tol, x1, x2, fx1, fx2,
            itnum, result, a0, c0, evals, iters>>

wlsVars == <<my_mu, my_C_inv, my_vector, my_svd, last, asymArg, nops, phase, batch>>

vars == <<gsVars, wlsVars>>

----------------------------------------------------------------------------
(* Bounds of the model *)

MaxCoord == 3
MaxIter == 3
MaxEvals == 5

(* g = (3.0 - sqrt(5))/2, as the rational GNum/GDen *)
GNum == 5
GDen == 13

RECURSIVE Pow(_, _)
Pow(x, n) == IF n = 0 THEN 1 ELSE x * Pow(x, n - 1)

Unit == Pow(GDen, MaxEvals)

Abs(x) == IF x < 0 THEN -x ELSE x
Min(x, y) == IF x < y THEN x ELSE y

\* the caller's coordinates: integers, in units of 1/Unit
Coords == {i * Unit : i \in -1..MaxCoord}

\* g * d
TimesG(d) == (GNum * d) \div GDen

\* tolerances a caller may pass: 0, 1/4 and 1
Tols == {<<0, 1>>, <<1, 4>>, <<1, 1>>}

\* values an arbitrary functor returns
ArbValues == {0, 1}

(* The functors of the model.  "vee" and "eev" are strictly unimodal with   *)
(* their minimum at m ("vee" has slope -2 on the left and +1 on the right, *)
(* "eev" has slope -1 on the left and +2 on the right); "arb" is any       *)
(* functor: it may return any value at any point.                          *)
Functors == [kind : {"vee", "eev"}, m : Coords] \cup {[kind |-> "arb", m |-> 0]}

Unimodal(f) == f.kind \in {"vee", "eev"}

\* the value at x of the unimodal functor f
Vee(f, x) ==
    IF f.kind = "vee"
    THEN (IF x < f.m THEN 2 * (f.m - x) ELSE x - f.m)
    ELSE (IF x < f.m THEN f.m - x ELSE 2 * (x - f.m))

\* the values func(x) may return
FuncValues(f, x) == IF Unimodal(f) THEN {Vee(f, x)} ELSE ArbValues

----------------------------------------------------------------------------
(* WLS<Size>: vectors and matrices *)

\* template <int Size>: the instantiation WLS<2>
Size == 2
\* template<int N> of the batched add_df: two measurements at once
NMeas == 2

\* calls made in a run of the model
MaxOps == 3

Idx == 1..Size
NIdx == 1..NMeas

RECURSIVE SumTo(_, _)
\* f[1] + ... + f[n]
SumTo(f, n) == IF n = 0 THEN 0 ELSE f[n] + SumTo(f, n - 1)

ZeroVec == [i \in Idx |-> 0]

\* Identity(M, prior)
Identity(prior) == [i \in Idx |-> [j \in Idx |-> IF i = j THEN prior ELSE 0]]

\* A + B and u + v
MatAdd(A, B) == [i \in DOMAIN A |-> [j \in DOMAIN A[i] |-> A[i][j] + B[i][j]]]
VecAdd(u, v) == [i \in DOMAIN u |-> u[i] + v[i]]

\* A * B, where A is r x n and B is n x k
MatMul(A, B, n) ==
    [i \in DOMAIN A |-> [j \in DOMAIN B[1] |->
        SumTo([k \in 1..n |-> A[i][k] * B[k][j]], n)]]

\* A * v, where A is r x n
MatVec(A, v, n) == [i \in DOMAIN A |-> SumTo([k \in 1..n |-> A[i][k] * v[k]], n)]

\* J.T(), where J is Size x N
Transpose(J) == [k \in NIdx |-> [i \in Idx |-> J[i][k]]]

Symmetric(M) == \A i \in DOMAIN M : \A j \in DOMAIN M : M[i][j] = M[j][i]
Diagonal(M) == \A i \in DOMAIN M : \A j \in DOMAIN M : i # j => M[i][j] = 0

----------------------------------------------------------------------------
(* The SVD of TooN/SVD.h: compute(M) followed by backsub(v) yields         *)
(* pseudoInverse(M) * v.  For a 2 x 2 matrix M the pseudo-inverse is       *)
(* adj(M)/det(M) when det(M) # 0, M^T/|M|_F^2 when M has rank one, and 0   *)
(* when M = 0.  The result is a vector of rationals <<n_1, n_2, d>> in     *)
(* lowest terms with d > 0.                                                *)

RECURSIVE Gcd(_, _)
Gcd(x, y) == IF y = 0 THEN Abs(x) ELSE Gcd(y, x % y)

Reduce(n1, n2, d) ==
    LET s == IF d < 0 THEN -1 ELSE 1
        g == Gcd(Gcd(Abs(n1), Abs(n2)), Abs(d))
    IN  <<(s * n1) \div g, (s * n2) \div g, (s * d) \div g>>

\* SVD::compute(M): the decomposition, identified with the matrix it factors
SVDCompute(M) == M

\* SVD::backsub(v)
SVDBacksub(M, v) ==
    LET det == M[1][1] * M[2][2] - M[1][2] * M[2][1]
        fro == M[1][1] * M[1][1] + M[1][2] * M[1][2]
                 + M[2][1] * M[2][1] + M[2][2] * M[2][2]
    IN  IF det # 0
        THEN Reduce(M[2][2] * v[1] - M[1][2] * v[2],
                    M[1][1] * v[2] - M[2][1] * v[1], det)
        ELSE IF fro # 0
        THEN Reduce(M[1][1] * v[1] + M[2][1] * v[2],
                    M[1][2] * v[1] + M[2][2] * v[2], fro)
        ELSE <<0, 0, 1>>

----------------------------------------------------------------------------
(* WLS<Size>: the member functions, as functions of the members            *)
(* s = [my_mu, my_C_inv, my_vector, my_svd]                                *)

\* clear that also zeroes the solution and forgets the decomposition
clear_resets_solution(s, prior) ==
    [s EXCEPT !.my_C_inv = Identity(prior), !.my_vector = ZeroVec,
              !.my_mu = <<0, 0, 1>>, !.my_svd = Identity(0)]

\* clear that writes the diagonal only
clear_diagonal_only(s, prior) ==
    [s EXCEPT !.my_C_inv = [i \in Idx |-> [j \in Idx |->
                  IF i = j THEN prior ELSE s.my_C_inv[i][j]]],
              !.my_vector = ZeroVec]

\* void clear(double prior=0)
clear(s, prior) ==
    [s EXCEPT !.my_C_inv = Identity(prior), !.my_vector = ZeroVec]

\* void add_prior(double val)
add_prior_scalar(s, val) ==
    [s EXCEPT !.my_C_inv = [i \in Idx |-> [j \in Idx |->
        IF i = j THEN s.my_C_inv[i][j] + val ELSE s.my_C_inv[i][j]]]]

\* void add_prior(const FixedVector<Size,Accessor>& v)
add_prior_vector(s, v) ==
    [s EXCEPT !.my_C_inv = [i \in Idx |-> [j \in Idx |->
        IF i = j THEN s.my_C_inv[i][j] + v[i] ELSE s.my_C_inv[i][j]]]]

\* void add_prior(const FixedMatrix<Size,Size,Accessor>& m)
add_prior_matrix(s, m) ==
    [s EXCEPT !.my_C_inv = MatAdd(s.my_C_inv, m)]

\* add_df with Jw[i] for Jw[j] in the matrix update
add_df_row_index(s, m, J, weight) ==
    LET Jw == [i \in Idx |-> J[i] * weight]
    IN  [s EXCEPT
           !.my_C_inv = [i \in Idx |-> [j \in Idx |-> s.my_C_inv[i][j] + J[i] * Jw[i]]],
           !.my_vector = [i \in Idx |-> s.my_vector[i] + Jw[i] * m]]

\* void add_df(double m, const FixedVector<Size,Accessor>& J, double weight = 1)
add_df(s, m, J, weight) ==
    LET Jw == [i \in Idx |-> J[i] * weight]
    IN  [s EXCEPT
           !.my_C_inv = [i \in Idx |-> [j \in Idx |-> s.my_C_inv[i][j] + J[i] * Jw[j]]],
           !.my_vector = [i \in Idx |-> s.my_vector[i] + Jw[i] * m]]

\* the batched add_df without invcov in the vector update
add_df_batch_unweighted(s, m, J, invcov) ==
    LET JW == MatMul(J, invcov, NMeas)
    IN  [s EXCEPT
           !.my_C_inv = MatAdd(s.my_C_inv, MatMul(JW, Transpose(J), NMeas)),
           !.my_vector = VecAdd(s.my_vector, MatVec(J, m, NMeas))]

\* void add_df(const FixedVector<N>& m, const FixedMatrix<Size,N>& J,
\*             const FixedMatrix<N,N>& invcov)
add_df_batch(s, m, J, invcov) ==
    LET JW == MatMul(J, invcov, NMeas)
    IN  [s EXCEPT
           !.my_C_inv = MatAdd(s.my_C_inv, MatMul(JW, Transpose(J), NMeas)),
           !.my_vector = VecAdd(s.my_vector, MatVec(JW, m, NMeas))]

\* void compute()
compute(s) ==
    LET svd == SVDCompute(s.my_C_inv)
    IN  [s EXCEPT !.my_svd = svd, !.my_mu = SVDBacksub(svd, s.my_vector)]

\* operator += that assigns the matrix instead of adding it
combine_assign(s, meas) ==
    [s EXCEPT !.my_vector = VecAdd(s.my_vector, meas.my_vector),
              !.my_C_inv = meas.my_C_inv]

(* void operator += (const WLS& meas).  Its third statement,               *)
(* my_true_C_inv += meas.my_true_C_inv, names a member that WLS<Size> does *)
(* not declare; it touches none of the declared members.                   *)
combine(s, meas) ==
    [s EXCEPT !.my_vector = VecAdd(s.my_vector, meas.my_vector),
              !.my_C_inv = MatAdd(s.my_C_inv, meas.my_C_inv)]

----------------------------------------------------------------------------
(* WLS<Size>: the instances *)

Get(w) == [my_mu |-> my_mu[w], my_C_inv |-> my_C_inv[w],
           my_vector |-> my_vector[w], my_svd |-> my_svd[w]]

\* the members of instance w become those of s
Put(w, s) ==
    /\ my_mu' = [my_mu EXCEPT ![w] = s.my_mu]
    /\ my_C_inv' = [my_C_inv EXCEPT ![w] = s.my_C_inv]
    /\ my_vector' = [my_vector EXCEPT ![w] = s.my_vector]
    /\ my_svd' = [my_svd EXCEPT ![w] = s.my_svd]

\* the members of w and of u become those of s and of t
Put2(w, s, u, t) ==
    /\ my_mu' = [my_mu EXCEPT ![w] = s.my_mu, ![u] = t.my_mu]
    /\ my_C_inv' = [my_C_inv EXCEPT ![w] = s.my_C_inv, ![u] = t.my_C_inv]
    /\ my_vector' = [my_vector EXCEPT ![w] = s.my_vector, ![u] = t.my_vector]
    /\ my_svd' = [my_svd EXCEPT ![w] = s.my_svd, ![u] = t.my_svd]

(* What the members my_mu and my_svd, which no constructor sets, may hold  *)
(* after construction.                                                     *)
Indeterminate == {[mu |-> <<0, 0, 1>>, svd |-> Identity(0)],
                  [mu |-> <<1, -1, 1>>, svd |-> Identity(1)]}

NoCall == [op |-> "none", inst |-> "none", prior |-> 0]
NoBatch == [m |-> <<0, 0>>, J |-> Identity(0), invcov |-> Identity(0),
            batched |-> FALSE, done |-> {}]

\* WLS(){clear();} for every instance of the set I
Constructed(I) ==
    /\ my_C_inv = [w \in I |-> Identity(0)]
    /\ my_vector = [w \in I |-> ZeroVec]
    /\ \E g \in [I -> Indeterminate] :
         /\ my_mu = [w \in I |-> g[w].mu]
         /\ my_svd = [w \in I |-> g[w].svd]

\* no instance exists
IdleWLS ==
    /\ Constructed({})
    /\ last = NoCall
    /\ asymArg = FALSE
    /\ nops = 0
    /\ phase = "idle"
    /\ batch = NoBatch

IdleGS ==
    /\ pc = "idle"
    /\ entry = "none"
    /\ a = 0 /\ b = 0 /\ c = 0
    /\ func = [kind |-> "arb", m |-> 0]
    /\ maxiterations = 1
    /\ tol = <<0, 1>>
    /\ fb = 0
    /\ x1 = 0 /\ x2 = 0 /\ fx1 = 0 /\ fx2 = 0
    /\ itnum = 0
    /\ result = <<0, 0>>
    /\ a0 = 0 /\ c0 = 0
    /\ evals = 0
    /\ iters = 0

----------------------------------------------------------------------------
(* Callers of WLS<Size>: any sequence of calls on the instances A and B *)

Users == {"A", "B"}

InitWLS ==
    /\ IdleGS
    /\ Constructed(Users)
    /\ last = NoCall
    /\ asymArg = FALSE
    /\ nops = 0
    /\ phase = "calls"
    /\ batch = NoBatch

\* the bookkeeping of one call on instance w
Called(w, op, prior, asym) ==
    /\ phase = "calls"
    /\ nops < MaxOps
    /\ nops' = nops + 1
    /\ last' = [op |-> op, inst |-> w, prior |-> prior]
    /\ asymArg' = (asymArg \/ asym)
    /\ UNCHANGED <<gsVars, phase, batch>>

Clear(w) ==
    \E prior \in {0, 1} :
        /\ Called(w, "clear", prior, FALSE)
        /\ Put(w, clear(Get(w), prior))

AddPriorScalar(w) ==
    \E val \in {1} :
        /\ Called(w, "add_prior", 0, FALSE)
        /\ Put(w, add_prior_scalar(Get(w), val))

AddPriorVector(w) ==
    \E v \in {<<1, 2>>} :
        /\ Called(w, "add_prior", 0, FALSE)
        /\ Put(w, add_prior_vector(Get(w), v))

AddPriorMatrix(w) ==
    \E m \in {<<<<1, 1>>, <<1, 0>>>>, <<<<0, 1>>, <<0, 0>>>>} :
        /\ Called(w, "add_prior", 0, ~ Symmetric(m))
        /\ Put(w, add_prior_matrix(Get(w), m))

AddDf(w) ==
    \E x \in {[m |-> 1, J |-> <<1, 0>>, weight |-> 1],
               [m |-> 2, J |-> <<1, -1>>, weight |-> 2],
               [m |-> -1, J |-> <<0, 1>>, weight |-> 1]} :
        /\ Called(w, "add_df", 0, FALSE)
        /\ Put(w, add_df(Get(w), x.m, x.J, x.weight))

AddDfBatch(w) ==
    \E m \in {<<1, 2>>},
       J \in {<<<<1, 0>>, <<1, 1>>>>},
       invcov \in {<<<<1, 0>>, <<0, 2>>>>, <<<<0, 1>>, <<0, 1>>>>} :
        /\ Called(w, "add_df", 0, ~ Symmetric(invcov))
        /\ Put(w, add_df_batch(Get(w), m, J, invcov))

Compute(w) ==
    /\ Called(w, "compute", 0, FALSE)
    /\ Put(w, compute(Get(w)))

\* w += u
Combine(w, u) ==
    /\ Called(w, "+=", 0, FALSE)
    /\ Put(w, combine(Get(w), Get(u)))

NextWLS ==
    \E w \in Users :
        \/ Clear(w)
        \/ AddPriorScalar(w)
        \/ AddPriorVector(w)
        \/ AddPriorMatrix(w)
        \/ AddDf(w)
        \/ AddDfBatch(w)
        \/ Compute(w)
        \/ \E u \in Users : Combine(w, u)

SpecWLS == InitWLS /\ [][NextWLS]_vars

----------------------------------------------------------------------------
(* Partitioned accumulation: the calls S1 go to A, the calls S2 go to B,   *)
(* and the reference instance R receives S1 followed by S2; then the       *)
(* caller merges, A += B or B += A.                                        *)

Parts == {"A", "B", "R"}

\* the accumulation calls of the scenario, with their arguments
AccCalls ==
    {[op |-> "add_prior_scalar", val |-> 1],
     [op |-> "add_prior_vector", v |-> <<1, 2>>],
     [op |-> "add_prior_matrix", M |-> <<<<1, 1>>, <<1, 0>>>>],
     [op |-> "add_prior_matrix", M |-> <<<<0, 1>>, <<0, 0>>>>],
     [op |-> "add_df", m |-> 1, J |-> <<1, 0>>, weight |-> 1],
     [op |-> "add_df", m |-> 2, J |-> <<1, -1>>, weight |-> 2],
     [op |-> "add_df", m |-> -1, J |-> <<0, 1>>, weight |-> 1],
     [op |-> "add_df_batch", ms |-> <<1, 2>>, Js |-> <<<<1, 0>>, <<1, 1>>>>,
      invcov |-> <<<<1, 0>>, <<0, 2>>>>],
     [op |-> "add_df_batch", ms |-> <<2, 1>>, Js |-> <<<<1, -1>>, <<0, 1>>>>,
      invcov |-> <<<<1, 1>>, <<1, 2>>>>]}

\* the call x made on an instance whose members are s
Apply(s, x) ==
    CASE x.op = "add_prior_scalar" -> add_prior_scalar(s, x.val)
      [] x.op = "add_prior_vector" -> add_prior_vector(s, x.v)
      [] x.op = "add_prior_matrix" -> add_prior_matrix(s, x.M)
      [] x.op = "add_df" -> add_df(s, x.m, x.J, x.weight)
      [] x.op = "add_df_batch" -> add_df_batch(s, x.ms, x.Js, x.invcov)

InitCombine ==
    /\ IdleGS
    /\ Constructed(Parts)
    /\ last = NoCall
    /\ asymArg = FALSE
    /\ nops = 0
    /\ phase = "S1"
    /\ batch = NoBatch

\* one call of S1, on A and on R
Accumulate1 ==
    /\ phase = "S1"
    /\ nops < MaxOps
    /\ \E x \in AccCalls :
         /\ Put2("A", Apply(Get("A"), x), "R", Apply(Get("R"), x))
         /\ last' = [op |-> x.op, inst |-> "A", prior |-> 0]
    /\ nops' = nops + 1
    /\ UNCHANGED <<gsVars, asymArg, phase, batch>>

\* S1 is over
EndS1 ==
    /\ phase = "S1"
    /\ phase' = "S2"
    /\ UNCHANGED <<gsVars, my_mu, my_C_inv, my_vector, my_svd, last, asymArg, nops, batch>>

\* one call of S2, on B and on R
Accumulate2 ==
    /\ phase = "S2"
    /\ nops < MaxOps
    /\ \E x \in AccCalls :
         /\ Put2("B", Apply(Get("B"), x), "R", Apply(Get("R"), x))
         /\ last' = [op |-> x.op, inst |-> "B", prior |-> 0]
    /\ nops' = nops + 1
    /\ UNCHANGED <<gsVars, asymArg, phase, batch>>

\* w += u
Merge(w, u) ==
    /\ phase = "S2"
    /\ Put(w, combine(Get(w), Get(u)))
    /\ last' = [op |-> "+=", inst |-> w, prior |-> 0]
    /\ phase' = "merged"
    /\ UNCHANGED <<gsVars, asymArg, nops, batch>>

NextCombine ==
    \/ Accumulate1
    \/ EndS1
    \/ Accumulate2
    \/ Merge("A", "B")
    \/ Merge("B", "A")

SpecCombine == InitCombine /\ [][NextCombine]_vars

----------------------------------------------------------------------------
(* Batched against sequential: from the same starting state, A receives    *)
(* the batched add_df(m, J, invcov) and B receives the single-measurement  *)
(* calls add_df(m[k], column k of J, invcov[k][k]), in any order.          *)

Pair == {"A", "B"}

\* members after construction, g being what my_mu and my_svd hold
Fresh(g) == [my_mu |-> g.mu, my_C_inv |-> Identity(0),
             my_vector |-> ZeroVec, my_svd |-> g.svd]

\* the starting states: just constructed, cleared with a prior, accumulated
Starts ==
    UNION {{Fresh(g),
            clear(Fresh(g), 1),
            add_df(add_prior_matrix(Fresh(g), <<<<1, 1>>, <<1, 0>>>>), 2, <<1, -1>>, 1)}
           : g \in Indeterminate}

BatchArgs ==
    [m : {<<1, 2>>, <<2, -1>>},
     J : [Idx -> [NIdx -> {-1, 0, 1}]],
     invcov : {<<<<p, r>>, <<t, q>>>> : p \in {1, 2}, q \in {0, 2}, r \in {0, 1}, t \in {0, 1}},
     batched : {FALSE},
     done : {{}}]

\* column k of J
Column(J, k) == [i \in Idx |-> J[i][k]]

InitBatch ==
    /\ IdleGS
    /\ \E s \in Starts :
         /\ my_mu = [w \in Pair |-> s.my_mu]
         /\ my_C_inv = [w \in Pair |-> s.my_C_inv]
         /\ my_vector = [w \in Pair |-> s.my_vector]
         /\ my_svd = [w \in Pair |-> s.my_svd]
    /\ last = NoCall
    /\ asymArg = FALSE
    /\ nops = 0
    /\ phase = "batch"
    /\ batch \in BatchArgs

\* A.add_df(m, J, invcov)
BatchCall ==
    /\ phase = "batch"
    /\ ~ batch.batched
    /\ Put("A", add_df_batch(Get("A"), batch.m, batch.J, batch.invcov))
    /\ batch' = [batch EXCEPT !.batched = TRUE]
    /\ last' = [op |-> "add_df", inst |-> "A", prior |-> 0]
    /\ UNCHANGED <<gsVars, asymArg, nops, phase>>

\* B.add_df(m[k], column k of J, invcov[k][k])
SingleCall(k) ==
    /\ phase = "batch"
    /\ k \notin batch.done
    /\ Put("B", add_df(Get("B"), batch.m[k], Column(batch.J, k), batch.invcov[k][k]))
    /\ batch' = [batch EXCEPT !.done = @ \cup {k}]
    /\ last' = [op |-> "add_df", inst |-> "B", prior |-> 0]
    /\ UNCHANGED <<gsVars, asymArg, nops, phase>>

NextBatch ==
    \/ BatchCall
    \/ \E k \in NIdx : SingleCall(k)

SpecBatch == InitBatch /\ [][NextBatch]_vars

----------------------------------------------------------------------------
(* golden_section_search *)

InitGS ==
    /\ IdleWLS
    /\ pc = "call"
    /\ entry = "none"
    /\ a \in Coords /\ b \in Coords /\ c \in Coords
    /\ func \in Functors
    /\ maxiterations \in 1..MaxIter
    /\ tol \in Tols
    /\ fb = 0
    /\ x1 = 0 /\ x2 = 0 /\ fx1 = 0 /\ fx2 = 0
    /\ itnum = 0
    /\ result = <<0, 0>>
    /\ a0 = a /\ c0 = c
    /\ evals = 0
    /\ iters = 0

\* the overload that takes fb: the caller passes any value
CallWithFb ==
    /\ pc = "call"
    /\ \E v \in FuncValues(func, b) \cup ArbValues : fb' = v
    /\ entry' = "fb"
    /\ pc' = "setup"
    /\ UNCHANGED <<wlsVars, a, b, c, func, maxiterations, tol, x1, x2, fx1, fx2, itnum,
                   result, a0, c0, evals, iters>>

\* the overload without fb evaluates func(b) and calls the other
CallWithoutFb ==
    /\ pc = "call"
    /\ \E v \in FuncValues(func, b) : fb' = v
    /\ evals' = evals + 1
    /\ entry' = "nofb"
    /\ pc' = "setup"
    /\ UNCHANGED <<wlsVars, a, b, c, func, maxiterations, tol, x1, x2, fx1, fx2, itnum,
                   result, a0, c0, iters>>

\* if(abs(b-a) > abs(c-b)): the new point goes between a and b
SetupLeft ==
    /\ pc = "setup"
    /\ Abs(b - a) > Abs(c - b)
    /\ x1' = b - TimesG(b - a)
    /\ x2' = b
    /\ \E v \in FuncValues(func, x1') : fx1' = v
    /\ fx2' = fb
    /\ itnum' = 1
    /\ evals' = evals + 1
    /\ iters' = 1
    /\ pc' = "loop"
    /\ UNCHANGED <<wlsVars, entry, a, b, c, fb, func, maxiterations, tol, result, a0, c0>>

\* else: the new point goes between b and c
SetupRight ==
    /\ pc = "setup"
    /\ ~ (Abs(b - a) > Abs(c - b))
    /\ x2' = b + TimesG(c - b)
    /\ x1' = b
    /\ fx1' = fb
    /\ \E v \in FuncValues(func, x2') : fx2' = v
    /\ itnum' = 1
    /\ evals' = evals + 1
    /\ iters' = 1
    /\ pc' = "loop"
    /\ UNCHANGED <<wlsVars, entry, a, b, c, fb, func, maxiterations, tol, result, a0, c0>>

\* while(abs(c-a) > tol * (abs(x2)+abs(x1)) && itnum < maxiterations)
LoopCond ==
    /\ Abs(c - a) * tol[2] > tol[1] * (Abs(x2) + Abs(x1))
    /\ itnum < maxiterations

\* GoRight with the comparison reversed
GoRightFlipped == fx1 < fx2

\* if(fx1 > fx2)
GoRight == fx1 > fx2

\* ShiftRight without fx1 = fx2: fx1 keeps the value of the discarded point
ShiftRightStaleValue ==
    /\ pc = "loop"
    /\ LoopCond
    /\ evals < MaxEvals
    /\ GoRight
    /\ a' = x1
    /\ x1' = x2
    /\ x2' = x1' + TimesG(c - x1')
    /\ fx1' = fx1
    /\ \E v \in FuncValues(func, x2') : fx2' = v
    /\ evals' = evals + 1
    /\ iters' = iters + 1
    /\ UNCHANGED <<wlsVars, pc, entry, b, c, fb, func, maxiterations, tol, itnum, result,
                   a0, c0>>

\* a x1 x2 c  becomes  x1 x2 new c
ShiftRight ==
    /\ pc = "loop"
    /\ LoopCond
    /\ evals < MaxEvals
    /\ GoRight
    /\ a' = x1
    /\ x1' = x2
    /\ x2' = x1' + TimesG(c - x1')
    /\ fx1' = fx2
    /\ \E v \in FuncValues(func, x2') : fx2' = v
    /\ evals' = evals + 1
    /\ iters' = iters + 1
    /\ UNCHANGED <<wlsVars, pc, entry, b, c, fb, func, maxiterations, tol, itnum, result,
                   a0, c0>>

\* ShiftLeft computing the new x1 from x2 as it was before x2 = x1
ShiftLeftStale ==
    /\ pc = "loop"
    /\ LoopCond
    /\ evals < MaxEvals
    /\ ~ GoRight
    /\ c' = x2
    /\ x2' = x1
    /\ x1' = x2 - TimesG(x2 - a)
    /\ fx2' = fx1
    /\ \E v \in FuncValues(func, x1') : fx1' = v
    /\ evals' = evals + 1
    /\ iters' = iters + 1
    /\ UNCHANGED <<wlsVars, pc, entry, a, b, fb, func, maxiterations, tol, itnum, result,
                   a0, c0>>

\* a x1 x2 c  becomes  a new x1 x2
ShiftLeft ==
    /\ pc = "loop"
    /\ LoopCond
    /\ evals < MaxEvals
    /\ ~ GoRight
    /\ c' = x2
    /\ x2' = x1
    /\ x1' = x2' - TimesG(x2' - a)
    /\ fx2' = fx1
    /\ \E v \in FuncValues(func, x1') : fx1' = v
    /\ evals' = evals + 1
    /\ iters' = iters + 1
    /\ UNCHANGED <<wlsVars, pc, entry, a, b, fb, func, maxiterations, tol, itnum, result,
                   a0, c0>>

\* ReturnValue with <= for <: a tie returns x1
ReturnValueTieX1 == IF fx1 <= fx2 THEN <<x1, fx1>> ELSE <<x2, fx2>>

\* if(fx1 < fx2) return (x1, fx1) else return (x2, fx2)
ReturnValue == IF fx1 < fx2 THEN <<x1, fx1>> ELSE <<x2, fx2>>

Return ==
    /\ pc = "loop"
    /\ ~ LoopCond
    /\ result' = ReturnValue
    /\ pc' = "done"
    /\ UNCHANGED <<wlsVars, entry, a, b, c, fb, func, maxiterations, tol, x1, x2, fx1, fx2,
                   itnum, a0, c0, evals, iters>>

NextGS ==
    \/ CallWithFb
    \/ CallWithoutFb
    \/ SetupLeft
    \/ SetupRight
    \/ ShiftRight
    \/ ShiftLeft
    \/ Return

SpecGS == InitGS /\ [][NextGS]_vars

----------------------------------------------------------------------------
(* Properties of golden_section_search *)

ValidBracket == a0 < b /\ b < c0
AfterSetup == pc \in {"loop", "done"}

(* C1.  The iteration cap is a hard upper bound: the overload that takes   *)
(* fb makes at most maxiterations iterations (the setup step being the     *)
(* first) and at most maxiterations functor evaluations, whatever the      *)
(* bracket, the functor and the tolerance.                                 *)
IterationCapRespected ==
    (entry = "fb" /\ ValidBracket) => (iters <= maxiterations /\ evals <= maxiterations)

(* C7.  Given a < b < c, the four points satisfy a < x1 < x2 < c after the *)
(* setup step and after every iteration of the loop, for any functor.      *)
FourPointsOrdered ==
    (ValidBracket /\ AfterSetup) => (a < x1 /\ x1 < x2 /\ x2 < c)

\* both branches of the loop were taken on a valid bracket, and a tie is pending
FourPointsOrderedWitness ==
    /\ ValidBracket
    /\ pc = "loop"
    /\ a # a0 /\ c # c0
    /\ fx1 = fx2
    /\ a < x1 /\ x1 < x2 /\ x2 < c

\* the preconditions of the search: a < b < c, f(a) > f(b) < f(c), fb = f(b)
BracketsMinimum ==
    /\ Unimodal(func)
    /\ ValidBracket
    /\ Vee(func, a0) > Vee(func, b)
    /\ Vee(func, b) < Vee(func, c0)
    /\ fb = Vee(func, b)

(* C8.  The bracket never loses the minimum: for a strictly unimodal       *)
(* functor with minimiser m and a bracket with a < b < c and               *)
(* f(a) > f(b) < f(c), a <= m <= c holds after the setup step and after    *)
(* every iteration of the loop.                                            *)
BracketKeepsMinimum ==
    (BracketsMinimum /\ AfterSetup) => (a <= func.m /\ func.m <= c)

\* both ends of the bracket have moved and the minimum is not the centre b
BracketKeepsMinimumWitness ==
    /\ BracketsMinimum
    /\ pc = "loop"
    /\ a # a0 /\ c # c0
    /\ func.m # b
    /\ a <= func.m /\ func.m <= c

(* C9.  On exit the search returns (x1, fx1) if fx1 < fx2 and (x2, fx2)    *)
(* otherwise: the returned value is min(fx1, fx2) and a tie returns x2.    *)
ReturnsSmallerPoint ==
    pc = "done" =>
        /\ result[2] = Min(fx1, fx2)
        /\ (fx1 < fx2 => result[1] = x1)
        /\ (fx1 >= fx2 => result[1] = x2)

\* the search returned on a tie, after the loop has run
ReturnsSmallerPointWitness ==
    /\ pc = "done"
    /\ iters >= 2
    /\ fx1 = fx2
    /\ x1 # x2
    /\ result = <<x2, fx2>>

(* C10.  The best value seen never gets worse, for any functor and any     *)
(* bracket: an iteration of the loop does not increase min(fx1, fx2),      *)
(* after the setup step one of fx1, fx2 is fb, and the value returned is   *)
(* at most fb.                                                             *)
BestNeverWorse ==
    /\ [][(pc = "loop" /\ pc' = "loop") => Min(fx1', fx2') <= Min(fx1, fx2)]_vars
    /\ []((pc = "loop" /\ iters = 1) => (fx1 = fb \/ fx2 = fb))
    /\ []((AfterSetup) => Min(fx1, fx2) <= fb)
    /\ [](pc = "done" => result[2] <= fb)

\* a malformed bracket, several iterations, and a result better than fb
BestNeverWorseWitness ==
    /\ ~ ValidBracket
    /\ pc = "done"
    /\ iters >= 3
    /\ result[2] < fb

----------------------------------------------------------------------------
(* Properties of WLS<Size> *)

(* C2.  After clear(prior) the information matrix is prior on every        *)
(* diagonal entry and 0 elsewhere, and every entry of the information      *)
(* vector is 0, whatever calls came before.                                *)
ClearLeavesNoResidue ==
    last.op = "clear" =>
        /\ \A i \in Idx : \A j \in Idx :
             my_C_inv[last.inst][i][j] = (IF i = j THEN last.prior ELSE 0)
        /\ \A i \in Idx : my_vector[last.inst][i] = 0

(* clear(1) on an instance that had accumulated an off-diagonal term and   *)
(* had been solved: the decomposition still shows what was accumulated     *)
ClearLeavesNoResidueWitness ==
    /\ last.op = "clear"
    /\ last.prior = 1
    /\ my_svd[last.inst][1][2] # 0
    /\ my_mu[last.inst] # <<0, 0, 1>>
    /\ my_C_inv[last.inst] = <<<<1, 0>>, <<0, 1>>>>

(* C4, as claimed.  The information matrix of every instance is symmetric  *)
(* in every reachable state, with any arguments the calls accept.          *)
AlwaysSymmetric ==
    \A w \in DOMAIN my_C_inv : Symmetric(my_C_inv[w])

(* C4, amended.  The information matrix of every instance is symmetric as  *)
(* long as every matrix passed to add_prior and every invcov passed to the *)
(* batched add_df was symmetric.                                           *)
SymmetricWhileArgsSymmetric ==
    ~ asymArg => \A w \in DOMAIN my_C_inv : Symmetric(my_C_inv[w])

\* a merge of two instances with off-diagonal terms, all arguments symmetric
SymmetricWhileArgsSymmetricWitness ==
    /\ ~ asymArg
    /\ last.op = "+="
    /\ \A w \in DOMAIN my_C_inv : my_C_inv[w][1][2] # 0 /\ Symmetric(my_C_inv[w])
    /\ my_C_inv["A"] # my_C_inv["B"]

(* C5.  Two-phase protocol: compute() sets the solution from the           *)
(* information matrix and vector as they are at the call and leaves them   *)
(* alone; every other call (add_prior, add_df, +=, clear) leaves the       *)
(* solution and the decomposition of every instance unchanged.             *)
TwoPhaseProtocol ==
    [][nops' # nops =>
         LET w == last'.inst IN
         IF last'.op = "compute"
         THEN /\ my_mu'[w] = SVDBacksub(my_C_inv[w], my_vector[w])
              /\ my_svd'[w] = SVDCompute(my_C_inv[w])
              /\ my_C_inv' = my_C_inv /\ my_vector' = my_vector
              /\ \A u \in DOMAIN my_mu \ {w} : my_mu'[u] = my_mu[u] /\ my_svd'[u] = my_svd[u]
         ELSE my_mu' = my_mu /\ my_svd' = my_svd]_vars

(* an instance was solved after accumulating, then accumulated again: its  *)
(* solution is the one of the earlier state, not of the present one        *)
TwoPhaseProtocolWitness ==
    /\ last.op = "add_df"
    /\ my_svd[last.inst][1][2] # 0
    /\ my_svd[last.inst] # my_C_inv[last.inst]
    /\ my_mu[last.inst] # SVDBacksub(my_C_inv[last.inst], my_vector[last.inst])
    /\ my_mu[last.inst] # <<0, 0, 1>>

(* C3.  Partitioned accumulation followed by a merge equals accumulation   *)
(* in one instance: after S1 on A and S2 on B, A += B leaves A with the    *)
(* information matrix and vector of the instance that received S1 then S2, *)
(* and leaves B unchanged; the same with the roles of A and B swapped.     *)
MergeEqualsSingleInstance ==
    [][(phase = "S2" /\ phase' = "merged") =>
         LET w == last'.inst
             u == IF w = "A" THEN "B" ELSE "A"
         IN  /\ my_C_inv'[w] = my_C_inv["R"]
             /\ my_vector'[w] = my_vector["R"]
             /\ my_C_inv'[u] = my_C_inv[u]
             /\ my_vector'[u] = my_vector[u]]_vars

\* a merge of two instances that both accumulated something
MergeEqualsSingleInstanceWitness ==
    /\ phase = "merged"
    /\ LET w == last.inst
           u == IF w = "A" THEN "B" ELSE "A"
       IN  /\ my_C_inv[u] # Identity(0)
           /\ my_vector[u] # ZeroVec
           /\ my_C_inv[w] # my_C_inv[u]
           /\ my_vector[w] # my_vector[u]
           /\ my_C_inv[w] = my_C_inv["R"]
           /\ my_vector[w] = my_vector["R"]

(* C6.  When invcov is diagonal, the batched add_df(m, J, invcov) changes  *)
(* the information matrix and vector as the single-measurement calls       *)
(* add_df(m[k], column k of J, invcov[k][k]) do, in any order, from any    *)
(* starting state.                                                         *)
BatchEqualsSequential ==
    (phase = "batch" /\ batch.batched /\ batch.done = NIdx /\ Diagonal(batch.invcov)) =>
        /\ my_C_inv["A"] = my_C_inv["B"]
        /\ my_vector["A"] = my_vector["B"]

(* both forms were applied, with two different weights and a Jacobian      *)
(* without zero entry, to an instance that was not empty                   *)
BatchEqualsSequentialWitness ==
    /\ phase = "batch"
    /\ batch.batched /\ batch.done = NIdx
    /\ Diagonal(batch.invcov)
    /\ batch.invcov[1][1] # batch.invcov[2][2]
    /\ batch.invcov[2][2] # 0
    /\ \A i \in Idx : \A k \in NIdx : batch.J[i][k] # 0
    /\ my_C_inv["A"][1][2] # 0
    /\ my_C_inv["A"] = my_C_inv["B"]
    /\ my_vector["A"] = my_vector["B"]

=============================================================================
